---- MODULE Spec2Model ----
(***************************************************************************)
(* Model of inventory/views.py of sal: the inventory submission endpoint,  *)
(* the hash lookup endpoint, the group filter of the list views and the    *)
(* distinct-machine query of InventoryListView.                            *)
(*                                                                         *)
(* The data store is the set of rows of each table.  Spec runs whole       *)
(* requests one after another; SpecConc runs two inventory_submit requests *)
(* one ORM call at a time, interleaved.                                    *)
(***************************************************************************)
EXTENDS Integers, Sequences, FiniteSets, TLC

VARIABLES
    applications,     \* rows of Application: [id, bundleid, name, bundlename]
    inventoryitems,   \* rows of InventoryItem: [id, machine, application, version, path]
    inventories,      \* rows of Inventory (the hash record): [id, machine, sha256hash]
    last_inventory_update, \* Machine.last_inventory_update, by machine id
    seq,              \* the autoincrement counters of the three tables
    clock,            \* the value datetime.now() returns next
    requests,         \* number of requests served so far (Spec)
    lastReq,          \* the request served last (Spec)
    response,         \* the response to it (Spec)
    history,          \* per machine: what the submissions so far carried (Spec)
    proc              \* the in-flight inventory_submit requests (SpecConc)

vars == <<applications, inventoryitems, inventories, last_inventory_update,
          seq, clock, requests, lastReq, response, history, proc>>

db == <<applications, inventoryitems, inventories, last_inventory_update, seq>>

----------------------------------------------------------------------------
(* Bounds of the model *)

\* longest inventory list a payload carries
MaxLen == 2
\* requests served one after another in Spec
MaxRequests == 2

----------------------------------------------------------------------------
(* Python values *)

\* None, and the value of a key a dict does not have
None == "<None>"

\* dict.get(key, default)
Get(item, key, default) == IF item[key] = None THEN default ELSE item[key]

\* truth value of a string or None, as `if serial:` tests it
Truthy(s) == s # None /\ s # ""

----------------------------------------------------------------------------
(* The rows this module only reads: server.models *)

BusinessUnits == {[id |-> 1], [id |-> 2]}

MachineGroups == {[id |-> 1, business_unit |-> 1],
                  [id |-> 2, business_unit |-> 1],
                  [id |-> 3, business_unit |-> 2]}

Machines == {[id |-> 1, serial |-> "S1", machine_group |-> 1],
             [id |-> 2, serial |-> "S2", machine_group |-> 2]}

MachineIds == {m.id : m \in Machines}

\* the serials a request may carry: absent, empty, enrolled, not enrolled
Serials == {None, "", "S1", "S2", "SX"}

----------------------------------------------------------------------------
(* Inventory payloads *)

\* the entries an agent reports; a key the entry lacks is None
EntrySeq ==
    << [bundleid |-> "com.foo.App", name |-> "App", CFBundleName |-> "App",
        version |-> "1.0", path |-> "/Applications/App.app"],
       [bundleid |-> "com.bar.Tool", name |-> "Tool", CFBundleName |-> None,
        version |-> None, path |-> None],
       [bundleid |-> "com.apple.print.PrinterProxy", name |-> "PrinterProxy",
        CFBundleName |-> None, version |-> "1.0",
        path |-> "/Library/Printers/proxy.app"] >>

Entries == {EntrySeq[k] : k \in DOMAIN EntrySeq}

\* the inventory lists of at most MaxLen entries, repeated entries included.
\* The order of a list's entries decides only the order in which row ids are
\* handed out, so each list is taken in one order, that of EntrySeq
Lists ==
    UNION {{[i \in 1..n |-> EntrySeq[f[i]]] :
              f \in {g \in [1..n -> DOMAIN EntrySeq] :
                        \A i \in 1..n, j \in 1..n : i < j => g[i] <= g[j]}} :
           n \in 0..MaxLen}

\* the decoded bytes: a serialized plist of a list, or bytes that are no plist
RawPlists == {[kind |-> "plist", list |-> l] : l \in Lists}
RawJunk == [kind |-> "junk", list |-> <<>>]
RawEmpty == [kind |-> "empty", list |-> <<>>]

\* the form field base64bz2inventory: absent, empty, the encoding of some
\* bytes (with its "+" turned into " " by the form decoding, or not), or a
\* string that is no base64 of a bz2 stream
FieldAbsent == [kind |-> None, raw |-> RawEmpty, spaces |-> FALSE]
FieldEmpty == [kind |-> "", raw |-> RawEmpty, spaces |-> FALSE]
FieldBroken == [kind |-> "broken", raw |-> RawEmpty, spaces |-> FALSE]
Fields ==
    {FieldAbsent, FieldEmpty, FieldBroken}
    \cup {[kind |-> "base64bz2", raw |-> r, spaces |-> FALSE] :
             r \in RawPlists \cup {RawJunk}}
    \cup {[kind |-> "base64bz2", raw |-> RawJunk, spaces |-> TRUE],
          [kind |-> "base64bz2", raw |-> [kind |-> "plist", list |-> <<>>],
           spaces |-> TRUE]}

\* compressed_inventory.replace(" ", "+")
ReplaceSpaces(field) == [field EXCEPT !.spaces = FALSE]

\* utils.decode_to_string: the bytes, or the empty string when the field is
\* no base64 of a bz2 stream
decode_to_string(field) ==
    IF field.kind = "base64bz2" /\ ~field.spaces THEN field.raw ELSE RawEmpty

\* plistlib.readPlistFromString inside try/except: the list, or None
readPlistFromString(raw) ==
    IF raw.kind = "plist" THEN [ok |-> TRUE, list |-> raw.list]
    ELSE [ok |-> FALSE, list |-> <<>>]

\* hashlib.sha256(inventory_str).hexdigest(): one digest per byte string
\* (a string of one "character" that stands for the 64 hex digits)
sha256(raw) == <<raw>>

\* the empty string, where a digest may stand
EmptyString == <<>>

\* ListTruthy without the test: the branch is taken whatever was parsed
ListTruthyAlways(parsed) == TRUE

\* `if inventory_list:` : None and the empty list are both false
ListTruthy(parsed) == parsed.ok /\ Len(parsed.list) > 0

bundleid_ignorelist == {"com.apple.print.PrinterProxy"}

----------------------------------------------------------------------------
(* ORM calls of inventory_submit *)

\* Machine.objects.get(serial=serial): the rows with that serial
MachineBySerial(serial) == {m \in Machines : m.serial = serial}

\* get_or_create as a plain create: a new row every time
create_always(st, item) ==
    [st |-> [st EXCEPT
                !.applications = @ \cup
                    {[id |-> st.seq.application + 1,
                      bundleid |-> Get(item, "bundleid", ""),
                      name |-> Get(item, "name", ""),
                      bundlename |-> Get(item, "CFBundleName", "")]},
                !.seq.application = @ + 1],
     app |-> st.seq.application + 1]

\* Application.objects.get_or_create(bundleid=.., name=.., bundlename=..)
\* on the store st: the store afterwards and the id of the row
get_or_create(st, item) ==
    LET bundleid == Get(item, "bundleid", "")
        name == Get(item, "name", "")
        bundlename == Get(item, "CFBundleName", "")
        found == {a \in st.applications : /\ a.bundleid = bundleid
                                          /\ a.name = name
                                          /\ a.bundlename = bundlename}
    IN  IF found # {}
        THEN [st |-> st, app |-> (CHOOSE a \in found : TRUE).id]
        ELSE [st |-> [st EXCEPT
                         !.applications = @ \cup
                             {[id |-> st.seq.application + 1, bundleid |-> bundleid,
                               name |-> name, bundlename |-> bundlename]},
                         !.seq.application = @ + 1],
              app |-> st.seq.application + 1]

\* machine.inventoryitem_set.create(application=app, version=.., path=..)
create_item(st, machine, app, item) ==
    [st EXCEPT
        !.inventoryitems = @ \cup
            {[id |-> st.seq.inventoryitem + 1, machine |-> machine,
              application |-> app, version |-> Get(item, "version", ""),
              path |-> Get(item, "path", "")]},
        !.seq.inventoryitem = @ + 1]

\* one pass of the body of `for item in inventory_list`
loop_body(st, machine, item) ==
    LET goc == get_or_create(st, item)
    IN  IF ~(item.bundleid \in bundleid_ignorelist)
        THEN create_item(goc.st, machine, goc.app, item)
        ELSE goc.st

\* the whole loop, from entry k of the list on
RECURSIVE insert_items(_, _, _, _)
insert_items(st, machine, list, k) ==
    IF k > Len(list) THEN st
    ELSE insert_items(loop_body(st, machine, list[k]), machine, list, k + 1)

\* machine.inventoryitem_set.all().delete()
delete_items(st, machine) ==
    [st EXCEPT !.inventoryitems = {i \in @ : i.machine # machine}]

\* Inventory.objects.get(machine=machine), or Inventory(machine=machine)
\* when DoesNotExist; id 0 is the unsaved object's missing pk.  With more
\* than one row get raises MultipleObjectsReturned, which nothing catches
get_inventory_meta(st, machine) ==
    LET found == {r \in st.inventories : r.machine = machine}
        new == [id |-> 0, machine |-> machine, sha256hash |-> EmptyString]
    IN  IF found = {} THEN [raised |-> FALSE, meta |-> new]
        ELSE IF Cardinality(found) = 1
        THEN [raised |-> FALSE, meta |-> CHOOSE r \in found : TRUE]
        ELSE [raised |-> TRUE, meta |-> new]

\* inventory_meta.save(): UPDATE the row of the object's pk; INSERT a row
\* with the next id when the object has no pk
save_inventory_meta(st, meta) ==
    IF meta.id # 0
    THEN [st EXCEPT !.inventories = {r \in @ : r.id # meta.id} \cup {meta}]
    ELSE [st EXCEPT
             !.inventories = @ \cup {[meta EXCEPT !.id = st.seq.inventory + 1]},
             !.seq.inventory = @ + 1]

\* the tables as one value, and back
Store == [applications |-> applications, inventoryitems |-> inventoryitems,
          inventories |-> inventories,
          last_inventory_update |-> last_inventory_update, seq |-> seq]

SetStore(st) ==
    /\ applications' = st.applications
    /\ inventoryitems' = st.inventoryitems
    /\ inventories' = st.inventories
    /\ last_inventory_update' = st.last_inventory_update
    /\ seq' = st.seq

\* the tables before any request
EmptyStore ==
    [applications |-> {}, inventoryitems |-> {}, inventories |-> {},
     last_inventory_update |-> [m \in MachineIds |-> 0],
     seq |-> [application |-> 0, inventoryitem |-> 0, inventory |-> 0]]

----------------------------------------------------------------------------
(* Responses *)

HttpResponse(body) ==
    [status |-> 200, body |-> body, sha256hash |-> EmptyString, rows |-> {}]

\* HttpResponseNotFound written as a plain HttpResponse
HttpResponseFound(body) == HttpResponse(body)

HttpResponseNotFound(body) ==
    [status |-> 404, body |-> body, sha256hash |-> EmptyString, rows |-> {}]
\* an exception no handler catches
ServerError(body) ==
    [status |-> 500, body |-> body, sha256hash |-> EmptyString, rows |-> {}]

----------------------------------------------------------------------------
(* inventory_submit, as one request served alone *)

\* lines 407-429: the branch taken when the parsed list is true
replace_inventory(st, now, machine, raw, list) ==
    LET got == get_inventory_meta(st, machine)
        meta == [got.meta EXCEPT !.sha256hash = sha256(raw)]
        cleared == delete_items(st, machine)
        filled == insert_items(cleared, machine, list, 1)
        saved == save_inventory_meta(filled, meta)
    IN  IF got.raised THEN [ok |-> FALSE, st |-> st]
        ELSE [ok |-> TRUE,
              st |-> [saved EXCEPT !.last_inventory_update[machine] = now]]

inventory_submit(st, now, method, serial, field) ==
    IF method # "POST"
    THEN [st |-> st, response |-> HttpResponseNotFound("No POST data sent")]
    ELSE IF ~Truthy(serial)
    THEN [st |-> st, response |-> HttpResponse("No inventory submitted.")]
    ELSE IF MachineBySerial(serial) = {}
    THEN [st |-> st, response |-> HttpResponseNotFound("Serial Number not found")]
    ELSE IF ~Truthy(field.kind)
    THEN [st |-> st, response |-> HttpResponse("No inventory submitted.")]
    ELSE
        LET machine == (CHOOSE m \in MachineBySerial(serial) : TRUE).id
            raw == decode_to_string(ReplaceSpaces(field))
            parsed == readPlistFromString(raw)
            done == replace_inventory(st, now, machine, raw, parsed.list)
        IN  IF ~ListTruthy(parsed)
            THEN [st |-> st, response |-> HttpResponse("Inventory submmitted for")]
            ELSE IF done.ok
            THEN [st |-> done.st, response |-> HttpResponse("Inventory submmitted for")]
            ELSE [st |-> done.st, response |-> ServerError("MultipleObjectsReturned")]

\* what the submissions for a machine carried, kept for the properties:
\* whether there was one, the field of the latest, the bytes of the latest
\* that parsed, and the highest InventoryItem id before the latest
NoHistory == [any |-> FALSE, last |-> FieldAbsent, good |-> {}, floor |-> 0]

Parses(field) ==
    /\ Truthy(field.kind)
    /\ readPlistFromString(decode_to_string(ReplaceSpaces(field))).ok

Record(h, method, serial, field, floor) ==
    IF method = "POST" /\ Truthy(serial) /\ MachineBySerial(serial) # {}
    THEN LET m == (CHOOSE x \in MachineBySerial(serial) : TRUE).id
         IN  [h EXCEPT ![m] =
                 [any |-> TRUE, last |-> field,
                  good |-> IF Parses(field)
                           THEN {decode_to_string(ReplaceSpaces(field))}
                           ELSE h[m].good,
                  floor |-> floor]]
    ELSE h

InventorySubmit(method, serial, field) ==
    /\ requests < MaxRequests
    /\ LET out == inventory_submit(Store, clock, method, serial, field)
       IN  /\ SetStore(out.st)
           /\ response' = out.response
    /\ clock' = clock + 1
    /\ requests' = requests + 1
    /\ lastReq' = [op |-> "inventory_submit", method |-> method,
                   serial |-> serial, field |-> field]
    /\ history' = Record(history, method, serial, field, seq.inventoryitem)
    /\ UNCHANGED proc

----------------------------------------------------------------------------
(* inventory_hash *)

inventory_hash(st, serial) ==
    IF ~Truthy(serial) THEN HttpResponse("MACHINE NOT FOUND")
    ELSE IF MachineBySerial(serial) = {} THEN HttpResponse("")
    ELSE LET machine == (CHOOSE m \in MachineBySerial(serial) : TRUE).id
             got == get_inventory_meta(st, machine)
         IN  IF got.raised THEN ServerError("MultipleObjectsReturned")
             ELSE [HttpResponse("") EXCEPT !.sha256hash = got.meta.sha256hash]

InventoryHash(serial) ==
    /\ requests < MaxRequests
    /\ response' = inventory_hash(Store, serial)
    /\ requests' = requests + 1
    /\ lastReq' = [op |-> "inventory_hash", method |-> "GET",
                   serial |-> serial, field |-> FieldAbsent]
    /\ UNCHANGED <<db, clock, history, proc>>

----------------------------------------------------------------------------
(* GroupMixin *)

GroupTypes == {"all", "business_unit", "machine_group", "machine"}

\* GroupMixin.classes
classes(group_type) ==
    CASE group_type = "all" -> None
      [] group_type = "business_unit" -> "BusinessUnit"
      [] group_type = "machine" -> "Machine"
      [] group_type = "machine_group" -> "MachineGroup"

\* the rows of a model class
Objects(cls) ==
    CASE cls = "BusinessUnit" -> {b.id : b \in BusinessUnits}
      [] cls = "MachineGroup" -> {g.id : g \in MachineGroups}
      [] cls = "Machine" -> MachineIds

\* get_group_instance: None for "all", the instance, or Http404
get_group_instance(group_type, group_id) ==
    LET group_class == classes(group_type)
    IN  IF group_class = None THEN [found |-> TRUE, cls |-> None, id |-> 0]
        ELSE IF group_id \in Objects(group_class)
        THEN [found |-> TRUE, cls |-> group_class, id |-> group_id]
        ELSE [found |-> FALSE, cls |-> group_class, id |-> group_id]

MachineRow(id) == CHOOSE m \in Machines : m.id = id
GroupRow(id) == CHOOSE g \in MachineGroups : g.id = id

\* filter_inventoryitem_by_group with the business unit matched against
\* "machine__machine_group"
filter_by_wrong_path(queryset, instance) ==
    IF instance.cls = None THEN queryset
    ELSE IF instance.cls \in {"BusinessUnit", "MachineGroup"}
    THEN {i \in queryset : MachineRow(i.machine).machine_group = instance.id}
    ELSE {i \in queryset : i.machine = instance.id}

\* filter_inventoryitem_by_group, given the instance get_group_instance found
filter_inventoryitem_by_group(queryset, instance) ==
    IF instance.cls = None THEN queryset
    ELSE IF instance.cls = "BusinessUnit"
    THEN {i \in queryset :
             GroupRow(MachineRow(i.machine).machine_group).business_unit = instance.id}
    ELSE IF instance.cls = "MachineGroup"
    THEN {i \in queryset : MachineRow(i.machine).machine_group = instance.id}
    ELSE {i \in queryset : i.machine = instance.id}

----------------------------------------------------------------------------
(* InventoryListView.get_queryset *)

FieldTypes == {"all", "path", "version"}
FieldValues == {"1.0", "/Applications/App.app"}

\* lines 139-151: scope, application and field filters; Http404 when the
\* scope or the application does not exist
filtered_items(st, kwargs) ==
    LET instance == get_group_instance(kwargs.group_type, kwargs.group_id)
        scoped == filter_inventoryitem_by_group(st.inventoryitems, instance)
        byapp == {i \in scoped : i.application = kwargs.application_id}
    IN  IF ~instance.found
           \/ ~\E a \in st.applications : a.id = kwargs.application_id
        THEN [found |-> FALSE, queryset |-> {}]
        ELSE [found |-> TRUE,
              queryset |->
                  IF kwargs.field_type = "path"
                  THEN {i \in byapp : i.path = kwargs.field_value}
                  ELSE IF kwargs.field_type = "version"
                  THEN {i \in byapp : i.version = kwargs.field_value}
                  ELSE byapp]

\* distinct("machine") written as distinct(): every row is kept
distinct_rows(queryset) ==
    {{[model |-> "InventoryItem", pk |-> i.id, machine |-> i.machine] :
         i \in queryset}}

\* queryset.order_by().distinct("machine"): DISTINCT ON (machine_id) keeps one
\* InventoryItem row per machine, which one is up to the database; the set of
\* the results it can give
distinct_machine(queryset) ==
    LET ms == {i.machine : i \in queryset}
        picks == {f \in [ms -> queryset] : \A m \in ms : f[m].machine = m}
    IN  {{[model |-> "InventoryItem", pk |-> f[m].id, machine |-> m] : m \in ms} :
            f \in picks}

\* values_list("machine", flat=True).distinct(), then
\* Machine.objects.filter(id__in=machines)
machines_by_id(queryset) ==
    LET machines == {i.machine : i \in queryset}
    IN  {[model |-> "Machine", pk |-> m.id, machine |-> m.id] :
            m \in {x \in Machines : x.id \in machines}}

\* the results get_queryset can return on either backend
get_queryset(st, kwargs, postgres) ==
    LET f == filtered_items(st, kwargs)
    IN  IF ~f.found THEN {}
        ELSE IF postgres THEN distinct_machine(f.queryset)
        ELSE {machines_by_id(f.queryset)}

Kwargs ==
    {k \in [group_type : GroupTypes, group_id : 0..3, application_id : 1..3,
            field_type : FieldTypes, field_value : FieldValues] :
        /\ (k.group_type = "all") = (k.group_id = 0)
        /\ (k.field_type = "all") => (k.field_value = "1.0")}

InventoryList(kwargs, postgres) ==
    /\ requests < MaxRequests
    /\ IF filtered_items(Store, kwargs).found
       THEN \E rows \in get_queryset(Store, kwargs, postgres) :
               response' = [HttpResponse("inventory_list") EXCEPT !.rows = rows]
       ELSE response' = HttpResponseNotFound("Not Found")
    /\ requests' = requests + 1
    /\ lastReq' = [op |-> "inventory_list", method |-> "GET",
                   serial |-> None, field |-> FieldAbsent]
    /\ UNCHANGED <<db, clock, history, proc>>

----------------------------------------------------------------------------
(* Requests served one after another *)

Init ==
    /\ applications = EmptyStore.applications
    /\ inventoryitems = EmptyStore.inventoryitems
    /\ inventories = EmptyStore.inventories
    /\ last_inventory_update = EmptyStore.last_inventory_update
    /\ seq = EmptyStore.seq
    /\ clock = 1
    /\ requests = 0
    /\ lastReq = [op |-> "none", method |-> "GET", serial |-> None,
                  field |-> FieldAbsent]
    /\ response = HttpResponse("")
    /\ history = [m \in MachineIds |-> NoHistory]
    /\ proc = <<>>

\* the requests inventory_submit is sent: every field for an enrolled
\* serial, and a few fields for the requests that end before the field is read
FewFields ==
    {FieldAbsent, FieldBroken,
     [kind |-> "base64bz2", raw |-> [kind |-> "plist", list |-> <<EntrySeq[1]>>],
      spaces |-> FALSE]}

Submissions ==
    {<<"POST", serial, field>> : serial \in {"S1", "S2"}, field \in Fields}
    \cup {<<"POST", serial, field>> : serial \in {None, "", "SX"}, field \in FewFields}
    \cup {<<"GET", serial, field>> : serial \in {"", "S1"}, field \in FewFields}

Next ==
    \/ \E s \in Submissions : InventorySubmit(s[1], s[2], s[3])
    \/ \E serial \in Serials : InventoryHash(serial)
    \/ \E kwargs \in Kwargs, postgres \in BOOLEAN : InventoryList(kwargs, postgres)

Spec == Init /\ [][Next]_vars

----------------------------------------------------------------------------
(* Two inventory_submit requests, one ORM call at a time *)

Procs == {1, 2}

\* a request not yet received
Idle ==
    [pc |-> "idle", serial |-> None, field |-> FieldAbsent, machine |-> 0,
     obj |-> 0, raw |-> RawEmpty, list |-> <<>>, k |-> 0, app |-> 0,
     meta |-> [id |-> 0, machine |-> 0, sha256hash |-> EmptyString],
     response |-> HttpResponse("")]

\* the tables after a step of a request
StoreStep(st) == SetStore(st) /\ UNCHANGED <<requests, lastReq, response, history>>

\* a request that waits for the requests in flight for the same machine
enters_locked(p, machine) ==
    \A q \in Procs \ {p} :
        ~(proc[q].pc \notin {"idle", "done"} /\ proc[q].machine = machine)

\* Machine.objects.get takes the row as it is: no select_for_update, no
\* transaction.atomic, so a request enters whatever the others are doing
enters_freely(p, machine) == TRUE

\* lines 383-406: method, serial, Machine.objects.get, decode and parse
Receive(p, serial, field) ==
    /\ proc[p].pc = "idle"
    /\ LET out == inventory_submit(Store, 0, "POST", serial, field)
           ms == MachineBySerial(serial)
           machine == IF ms = {} THEN 0 ELSE (CHOOSE m \in ms : TRUE).id
           raw == decode_to_string(ReplaceSpaces(field))
           parsed == readPlistFromString(raw)
       IN  /\ enters_freely(p, machine)
           /\ IF ~Truthy(serial) \/ ms = {} \/ ~Truthy(field.kind)
              THEN proc' = [proc EXCEPT ![p] =
                       [@ EXCEPT !.pc = "done", !.serial = serial, !.field = field,
                                 !.response = out.response]]
              ELSE proc' = [proc EXCEPT ![p] =
                       [@ EXCEPT !.pc = IF ListTruthy(parsed) THEN "get_meta"
                                        ELSE "save_machine",
                                 !.serial = serial, !.field = field,
                                 !.machine = machine,
                                 !.obj = last_inventory_update[machine],
                                 !.raw = raw, !.list = parsed.list]]
    /\ UNCHANGED <<db, clock, requests, lastReq, response, history>>

\* lines 408-413: the hash record of the machine, or a new one, and its hash
GetMeta(p) ==
    /\ proc[p].pc = "get_meta"
    /\ LET got == get_inventory_meta(Store, proc[p].machine)
       IN  IF got.raised
           THEN proc' = [proc EXCEPT ![p] =
                    [@ EXCEPT !.pc = "done",
                              !.response = ServerError("MultipleObjectsReturned")]]
           ELSE proc' = [proc EXCEPT ![p] =
                    [@ EXCEPT !.pc = "delete",
                              !.meta = [got.meta EXCEPT
                                           !.sha256hash = sha256(proc[p].raw)]]]
    /\ UNCHANGED <<db, clock, requests, lastReq, response, history>>

\* line 415
DeleteItems(p) ==
    /\ proc[p].pc = "delete"
    /\ StoreStep(delete_items(Store, proc[p].machine))
    /\ proc' = [proc EXCEPT ![p] = [@ EXCEPT !.pc = "get_or_create", !.k = 1]]
    /\ UNCHANGED clock

\* where the loop goes after entry k
AfterEntry(p) ==
    IF proc[p].k < Len(proc[p].list) THEN "get_or_create" ELSE "save_meta"

\* lines 418-424: get_or_create of the application of entry k, and the
\* test of the ignore list
GetOrCreate(p) ==
    /\ proc[p].pc = "get_or_create"
    /\ LET item == proc[p].list[proc[p].k]
           goc == get_or_create(Store, item)
       IN  /\ StoreStep(goc.st)
           /\ IF ~(item.bundleid \in bundleid_ignorelist)
              THEN proc' = [proc EXCEPT ![p] =
                       [@ EXCEPT !.pc = "create_item", !.app = goc.app]]
              ELSE proc' = [proc EXCEPT ![p] =
                       [@ EXCEPT !.pc = AfterEntry(p), !.k = @ + 1,
                                 !.app = goc.app]]
    /\ UNCHANGED clock

\* lines 425-427
CreateItem(p) ==
    /\ proc[p].pc = "create_item"
    /\ StoreStep(create_item(Store, proc[p].machine, proc[p].app,
                             proc[p].list[proc[p].k]))
    /\ proc' = [proc EXCEPT ![p] = [@ EXCEPT !.pc = AfterEntry(p), !.k = @ + 1]]
    /\ UNCHANGED clock

\* lines 428-429: the time of the update, on the machine object, and the
\* save of the hash record
SaveMeta(p) ==
    /\ proc[p].pc = "save_meta"
    /\ StoreStep(save_inventory_meta(Store, proc[p].meta))
    /\ proc' = [proc EXCEPT ![p] = [@ EXCEPT !.pc = "save_machine", !.obj = clock]]
    /\ clock' = clock + 1

\* lines 430-433: machine.save() writes the machine object back
SaveMachine(p) ==
    /\ proc[p].pc = "save_machine"
    /\ StoreStep([Store EXCEPT
                     !.last_inventory_update[proc[p].machine] = proc[p].obj])
    /\ proc' = [proc EXCEPT ![p] =
           [@ EXCEPT !.pc = "done",
                     !.response = HttpResponse("Inventory submmitted for")]]
    /\ UNCHANGED clock

\* the next ORM call of a request that was received
Step(p) ==
    \/ GetMeta(p)
    \/ DeleteItems(p)
    \/ GetOrCreate(p)
    \/ CreateItem(p)
    \/ SaveMeta(p)
    \/ SaveMachine(p)

\* what the two requests carry
ConcFields ==
    {FieldAbsent, FieldBroken}
    \cup {[kind |-> "base64bz2", raw |-> r, spaces |-> FALSE] : r \in RawPlists}

ConcSerials == {"S1", "S2", "SX"}

\* the two requests meet the tables empty, or as an earlier submission for
\* S1 left them
InitConc ==
    /\ \E earlier \in BOOLEAN :
          LET field == [kind |-> "base64bz2",
                        raw |-> [kind |-> "plist", list |-> <<EntrySeq[1]>>],
                        spaces |-> FALSE]
              st == IF earlier
                    THEN inventory_submit(EmptyStore, 1, "POST", "S1", field).st
                    ELSE EmptyStore
          IN  /\ applications = st.applications
              /\ inventoryitems = st.inventoryitems
              /\ inventories = st.inventories
              /\ last_inventory_update = st.last_inventory_update
              /\ seq = st.seq
              /\ clock = IF earlier THEN 2 ELSE 1
    /\ requests = 0
    /\ lastReq = [op |-> "none", method |-> "GET", serial |-> None,
                  field |-> FieldAbsent]
    /\ response = HttpResponse("")
    /\ history = [m \in MachineIds |-> NoHistory]
    /\ proc = [p \in Procs |-> Idle]

NextConc ==
    \E p \in Procs :
        \/ \E serial \in ConcSerials, field \in ConcFields :
              Receive(p, serial, field)
        \/ Step(p)

SpecConc == InitConc /\ [][NextConc]_vars

----------------------------------------------------------------------------
(* Properties of requests served one after another *)

ItemsOf(m) == {i \in inventoryitems : i.machine = m}
MetaOf(m) == {r \in inventories : r.machine = m}
ApplicationOf(i) == CHOOSE a \in applications : a.id = i.application

\* the list a field carries, once decoded and parsed
ListOf(field) == readPlistFromString(decode_to_string(ReplaceSpaces(field))).list

\* item i records entry e: the entry's application triple, version and path,
\* with the empty string for a key the entry lacks
Records(i, e) ==
    /\ \E a \in applications : a.id = i.application
    /\ ApplicationOf(i).bundleid = Get(e, "bundleid", "")
    /\ ApplicationOf(i).name = Get(e, "name", "")
    /\ ApplicationOf(i).bundlename = Get(e, "CFBundleName", "")
    /\ i.version = Get(e, "version", "")
    /\ i.path = Get(e, "path", "")

Ignored(e) == e.bundleid \in bundleid_ignorelist

\* the items of machine m are the non-ignored entries of list, one item per
\* entry, all of them created by the submission that found the ids up to floor
ItemsAre(m, list, floor) ==
    /\ \A e \in Entries :
          Cardinality({i \in ItemsOf(m) : Records(i, e)}) =
              IF Ignored(e) THEN 0
              ELSE Cardinality({k \in DOMAIN list : list[k] = e})
    /\ Cardinality(ItemsOf(m)) =
          Cardinality({k \in DOMAIN list : ~Ignored(list[k])})
    /\ \A i \in ItemsOf(m) : i.id > floor

\* C1: for every machine whose most recent submission carried a payload that
\* decoded and parsed (a list of any length), the machine's items are exactly
\* the non-ignored entries of that payload, none surviving from before.
C1_ItemsEqualLastPayload ==
    \A m \in MachineIds :
        (history[m].any /\ Parses(history[m].last))
            => ItemsAre(m, ListOf(history[m].last), history[m].floor)

\* what holds of C1: the same, for the payloads whose list has an entry
C1_NonEmptyLists ==
    \A m \in MachineIds :
        (history[m].any /\ Parses(history[m].last)
         /\ Len(ListOf(history[m].last)) > 0)
            => ItemsAre(m, ListOf(history[m].last), history[m].floor)

\* the request served by this step was a POST to inventory_submit
SubmitStep == requests' = requests + 1 /\ lastReq'.op = "inventory_submit"
                 /\ lastReq'.method = "POST"

\* C2: a POST for an existing machine whose payload field is non-empty but
\* does not decode or parse leaves the machine's items and hash record as they
\* were, and is answered with a successful response.
C2_UnparsableLeavesInventory ==
    [][\A m \in Machines :
          (/\ SubmitStep
           /\ lastReq'.serial = m.serial
           /\ Truthy(lastReq'.field.kind)
           /\ ~Parses(lastReq'.field))
          => /\ ItemsOf(m.id)' = ItemsOf(m.id)
             /\ MetaOf(m.id)' = MetaOf(m.id)
             /\ response'.status = 200]_vars

C2_Witness ==
    /\ lastReq.op = "inventory_submit" /\ lastReq.method = "POST"
    /\ lastReq.serial = "S1"
    /\ Truthy(lastReq.field.kind) /\ ~Parses(lastReq.field)
    /\ ItemsOf(1) # {} /\ MetaOf(1) # {}
    /\ response.status = 200

\* C3: inventory_hash for a non-empty serial returns the hash of the bytes of
\* the most recent payload that parsed for that machine, and the empty string
\* when the machine does not exist or no payload ever parsed for it.
C3_HashOfLastParsed ==
    \A serial \in Serials :
        Truthy(serial) =>
            LET r == inventory_hash(Store, serial)
                ms == MachineBySerial(serial)
            IN  /\ r.status = 200
                /\ r.sha256hash =
                      IF ms = {} THEN EmptyString
                      ELSE LET good == history[(CHOOSE m \in ms : TRUE).id].good
                           IN  IF good = {} THEN EmptyString
                               ELSE sha256(CHOOSE raw \in good : TRUE)

\* what holds of C3: the hash returned is that of the most recent payload
\* that parsed to a list with an entry, ignored or not
C3_HashOfLastNonEmpty ==
    \A m \in Machines :
        LET r == inventory_hash(Store, m.serial)
        IN  /\ (history[m.id].any /\ Parses(history[m.id].last)
                /\ Len(ListOf(history[m.id].last)) > 0)
                   => r.sha256hash =
                         sha256(decode_to_string(ReplaceSpaces(history[m.id].last)))
            /\ history[m.id].good = {} => r.sha256hash = EmptyString

\* C4: no two Application rows have the same (bundleid, name, bundlename), and
\* every InventoryItem references one Application row.
C4_UniqueApplications ==
    /\ \A a \in applications, b \in applications :
          (a.bundleid = b.bundleid /\ a.name = b.name /\ a.bundlename = b.bundlename)
              => a = b
    /\ \A i \in inventoryitems :
          Cardinality({a \in applications : a.id = i.application}) = 1

\* two requests, for two machines, reported the same application
C4_Witness ==
    \E i \in inventoryitems, j \in inventoryitems :
        /\ i.machine # j.machine
        /\ i.application = j.application
        /\ Cardinality(applications) > 1

\* C5: an entry whose bundle id is in the ignore list causes neither an
\* Application row nor an InventoryItem to come into being.
C5_IgnoredEntriesSkipped ==
    /\ \A a \in applications : a.bundleid \notin bundleid_ignorelist
    /\ \A i \in inventoryitems :
          \A a \in applications :
              a.id = i.application => a.bundleid \notin bundleid_ignorelist

\* what holds of C5: no InventoryItem is created for an ignored entry
C5_NoIgnoredItems ==
    \A i \in inventoryitems :
        \A a \in applications :
            a.id = i.application => a.bundleid \notin bundleid_ignorelist

\* C6: a POST whose serial is empty or absent, or resolves to no Machine,
\* fails with NotFound and changes no row.
C6_NoMachineNotFound ==
    [][(SubmitStep
        /\ (~Truthy(lastReq'.serial) \/ MachineBySerial(lastReq'.serial) = {}))
       => (response'.status = 404 /\ UNCHANGED db)]_vars

\* C6 as amended: NotFound for a serial that resolves to no Machine, the
\* "No inventory submitted." acknowledgement for an empty or absent serial,
\* and no row changed in either case.
C6_NoMachineNoChange ==
    [][(SubmitStep
        /\ (~Truthy(lastReq'.serial) \/ MachineBySerial(lastReq'.serial) = {}))
       => /\ UNCHANGED db
          /\ IF lastReq'.serial \in {None, ""}
             THEN response'.status = 200
                  /\ response'.body = "No inventory submitted."
             ELSE response'.status = 404
                  /\ response'.body = "Serial Number not found"]_vars

C6_Witness ==
    /\ lastReq.op = "inventory_submit" /\ lastReq.method = "POST"
    /\ lastReq.serial = "" /\ Parses(lastReq.field)
    /\ response.status = 200
    /\ inventoryitems # {}

MachineIdsOf(rows) == {r.machine : r \in rows}

\* C7: for every machine m of machine group g of business unit b, the items
\* filter_inventoryitem_by_group returns for "all" include those for b, which
\* include those for g, which include those for m.
C7_ScopeMonotonic ==
    \A m \in Machines :
        \A queryset \in {inventoryitems} \cup
                {{i \in inventoryitems : i.application = a.id} : a \in applications} :
            LET g == m.machine_group
                b == GroupRow(g).business_unit
                F(group_type, group_id) ==
                    filter_inventoryitem_by_group(
                        queryset, get_group_instance(group_type, group_id))
            IN  /\ F("machine", m.id) \subseteq F("machine_group", g)
                /\ F("machine_group", g) \subseteq F("business_unit", b)
                /\ F("business_unit", b) \subseteq F("all", 0)

\* a list query answered with machine 2, whose items the scope of its
\* business unit holds and the scope of the other machine group does not
C7_Witness ==
    /\ lastReq.op = "inventory_list"
    /\ MachineIdsOf(response.rows) = {2}
    /\ filter_inventoryitem_by_group(inventoryitems, get_group_instance("machine_group", 1))
          # filter_inventoryitem_by_group(inventoryitems, get_group_instance("business_unit", 1))

\* C8: for every scope, application and field filter, the postgres branch and
\* the fallback branch of get_queryset give the same machine ids, each once.
C8_BranchesAgree ==
    \A kwargs \in Kwargs :
        \A native \in get_queryset(Store, kwargs, TRUE),
           fallback \in get_queryset(Store, kwargs, FALSE) :
            /\ MachineIdsOf(native) = MachineIdsOf(fallback)
            /\ Cardinality(native) = Cardinality(MachineIdsOf(native))
            /\ Cardinality(fallback) = Cardinality(MachineIdsOf(fallback))

\* a list query answered with one row for a machine that holds the
\* application twice
C8_Witness ==
    /\ lastReq.op = "inventory_list"
    /\ Cardinality(response.rows) = 1
    /\ \E i \in inventoryitems, j \in inventoryitems :
          /\ i # j /\ i.machine = j.machine /\ i.application = j.application
          /\ MachineIdsOf(response.rows) = {i.machine}

----------------------------------------------------------------------------
(* Properties of interleaved requests *)

InFlight(p) == proc[p].pc \notin {"idle", "done"}

\* request p was answered "Inventory submmitted" for a list that was true
Submitted(p) ==
    /\ proc[p].pc = "done"
    /\ proc[p].response.status = 200
    /\ proc[p].machine # 0
    /\ Len(proc[p].list) > 0

\* C9: inventory_submit takes no lock: while one request for a machine is
\* between its first and its last ORM call, a second request for the same
\* machine is received, and every request that was received can take its
\* next step.  (The interleaving the claim speaks of ends in C9_Witness.)
C9_NoLock ==
    \A p \in Procs :
        /\ InFlight(p) => ENABLED Step(p)
        /\ \A q \in Procs \ {p} :
              (proc[p].pc = "idle" /\ InFlight(q))
                  => \A field \in ConcFields :
                        ENABLED Receive(p, proc[q].serial, field)

\* both requests, for one machine and with different lists, were answered,
\* and the machine's items are the non-ignored entries of neither
C9_Witness ==
    /\ Submitted(1) /\ Submitted(2)
    /\ proc[1].machine = proc[2].machine
    /\ proc[1].raw # proc[2].raw
    /\ ~ItemsAre(proc[1].machine, proc[1].list, 0)
    /\ ~ItemsAre(proc[1].machine, proc[2].list, 0)
    /\ Cardinality(MetaOf(proc[1].machine)) = 1

\* both requests were answered, the items are those of one request and the
\* stored hash is that of the other
C9_WitnessHash ==
    /\ Submitted(1) /\ Submitted(2)
    /\ proc[1].machine = proc[2].machine
    /\ ItemsAre(proc[1].machine, proc[1].list, 0)
    /\ ~ItemsAre(proc[1].machine, proc[2].list, 0)
    /\ MetaOf(proc[1].machine) =
          {[id |-> 1, machine |-> proc[1].machine,
            sha256hash |-> sha256(proc[2].raw)]}
    /\ proc[1].raw # proc[2].raw

\* C10: each Machine has at most one hash record, whether the submissions
\* are served one after another or interleaved.
C10_OneMetaPerMachine ==
    \A m \in MachineIds : Cardinality(MetaOf(m)) <= 1

====
